---- MODULE Spec2Model ----
(***************************************************************************)
(* Model of the issuer node (issuer-rust): the field codec, additive       *)
(* secret sharing, the MiMC commitment hash and the credential message of  *)
(* crypto/mod.rs, and the two commands `issue` and `session` of main.rs    *)
(* acting on a file system.                                                *)
(*                                                                         *)
(* The scalar field of BN254 has a 254-bit order; the model keeps every    *)
(* operation as the code computes it but over the prime q below, which     *)
(* shares with the real order the one number-theoretic fact the claims     *)
(* turn on: gcd(7, q - 1) = 1 (q - 1 mod 7 is 5 for both), so x |-> x^7   *)
(* is a bijection of the field, while x |-> x^7 + x is not.  Likewise the  *)
(* 32 random bytes of thread_rng become one random byte: the range of the  *)
(* draw (256) exceeds q as 2^256 exceeds the real order.                   *)
(***************************************************************************)
EXTENDS Integers, Sequences, FiniteSets, TLC

VARIABLES call, fs, last, runs, seen, issued

vars == <<call, fs, last, runs, seen, issued>>

\* ------------------------------------------------------------------------
\* Bounds and program constants
\* ------------------------------------------------------------------------

\* The field order (ark_bn254::Fr), scaled down.
q == 13

\* The S-box exponent of mimc_round: y.pow([7]).
MimcExponent == 7

\* Longest string handed to decimal_to_fr.
MaxLen == 3

\* Number of command invocations explored.
MaxRuns == 3

Fr == 0..(q - 1)

Byte == 0..255

\* ------------------------------------------------------------------------
\* Field arithmetic (ark_ff: every operation reduces modulo q)
\* ------------------------------------------------------------------------

FrAdd(a, b) == (a + b) % q

FrSub(a, b) == (a + q - b) % q

FrMul(a, b) == (a * b) % q

\* Field::pow: square-and-multiply over the bits of the exponent.
RECURSIVE FrPow(_, _)
FrPow(b, e) ==
    IF e = 0 THEN 1
    ELSE LET h == FrPow(b, e \div 2)
             sq == FrMul(h, h)
         IN IF e % 2 = 1 THEN FrMul(sq, b) ELSE sq

\* Fr::from(n: u64)
u64_to_fr(n) == n % q

\* Fr::from_le_bytes_mod_order: the little-endian integer of the bytes, mod q
\* (low half plus 256^h times the high half, so the evaluation stays shallow).
RECURSIVE from_le_bytes_mod_order(_)
from_le_bytes_mod_order(bytes) ==
    IF bytes = <<>> THEN 0
    ELSE IF Len(bytes) = 1 THEN bytes[1] % q
    ELSE LET h == Len(bytes) \div 2
             lo == from_le_bytes_mod_order(SubSeq(bytes, 1, h))
             hi == from_le_bytes_mod_order(SubSeq(bytes, h + 1, Len(bytes)))
         IN FrAdd(lo, FrMul(FrPow(256 % q, h), hi))

\* ------------------------------------------------------------------------
\* SHA-256.  A digest is identified with its preimage (no collisions); the
\* digest bytes are tabulated for the verifier identifiers of the model.
\* ------------------------------------------------------------------------

Sha256(data) == [sha256 |-> data]

VerifierIds == {"BANK_A", "BANK_B", "BANK_C", "GOV_A"}

DigestBytes(h) ==
    CASE h.sha256 = "BANK_A" ->
           <<244, 237, 171, 200, 252, 13, 34, 244, 196, 233, 169, 77, 245, 183,
             12, 68, 46, 206, 165, 121, 63, 100, 248, 203, 108, 203, 148, 212,
             241, 247, 129, 213>>
      [] h.sha256 = "BANK_B" ->
           <<5, 90, 138, 232, 201, 49, 220, 81, 32, 44, 15, 159, 182, 11, 39,
             180, 87, 27, 55, 65, 238, 219, 239, 199, 228, 244, 50, 135, 42, 44,
             36, 147>>
      [] h.sha256 = "BANK_C" ->
           <<33, 92, 211, 227, 25, 179, 83, 52, 164, 165, 43, 191, 40, 209, 75,
             58, 13, 84, 31, 47, 81, 74, 239, 33, 34, 79, 107, 114, 42, 223, 201,
             165>>
      [] h.sha256 = "GOV_A" ->
           <<164, 97, 226, 14, 8, 213, 13, 13, 161, 178, 28, 26, 9, 113, 240,
             234, 251, 115, 45, 102, 131, 194, 141, 94, 33, 26, 34, 148, 181,
             235, 164, 68>>

\* The tag of each identifier of the model: its SHA-256 digest as a
\* little-endian integer mod q (a table, so that it is computed once).
DomainTagOf == [v \in VerifierIds |-> from_le_bytes_mod_order(DigestBytes(Sha256(v)))]

\* bytes_to_fr: SHA-256 of the data as a little-endian integer mod q.
bytes_to_fr(data) == DomainTagOf[data]

\* ------------------------------------------------------------------------
\* Decimal codec.  A string is a sequence of one-character strings.
\* ------------------------------------------------------------------------

DigitChars == <<"0", "1", "2", "3", "4", "5", "6", "7", "8", "9">>

Digits == {DigitChars[i] : i \in 1..10}

Alphabet == Digits \cup {"+", "_", "-", "x"}

DigitVal(c) == (CHOOSE i \in 1..10 : DigitChars[i] = c) - 1

\* BigUint's Display: the base-10 digits, most significant first.
RECURSIVE BigUintToString(_)
BigUintToString(n) ==
    IF n < 10 THEN <<DigitChars[n + 1]>>
    ELSE Append(BigUintToString(n \div 10), DigitChars[(n % 10) + 1])

\* Mutant: the digits in the order the divisions produce them (least
\* significant first).
RECURSIVE BigUintToStringReversed(_)
BigUintToStringReversed(n) ==
    IF n < 10 THEN <<DigitChars[n + 1]>>
    ELSE <<DigitChars[(n % 10) + 1]>> \o BigUintToStringReversed(n \div 10)

fr_to_decimal_reversed(f) == BigUintToStringReversed(f % q)

\* f.into_bigint().to_string(): into_bigint gives the representative in [0, q).
fr_to_decimal(f) == BigUintToString(f % q)

RECURSIVE DigitsValue(_)
DigitsValue(ds) ==
    IF ds = <<>> THEN 0
    ELSE DigitsValue(SubSeq(ds, 1, Len(ds) - 1)) * 10 + DigitVal(ds[Len(ds)])

IsNotUnderscore(c) == c # "_"

\* BigUint::from_str (radix 10): one leading '+' is dropped, the empty string
\* and a leading '_' are errors, '_' between digits is skipped, any other
\* non-digit is an error.
BigUintFromStr(s) ==
    LET t == IF Len(s) > 0 /\ s[1] = "+" /\ ~(Len(s) > 1 /\ s[2] = "+")
             THEN Tail(s) ELSE s
    IN IF t = <<>> THEN [ok |-> FALSE]
       ELSE IF t[1] = "_" THEN [ok |-> FALSE]
       ELSE IF \E i \in 1..Len(t) : t[i] \notin Digits \cup {"_"} THEN [ok |-> FALSE]
       ELSE [ok |-> TRUE, val |-> DigitsValue(SelectSeq(t, IsNotUnderscore))]

\* BigUint::to_bytes_le: zero is the single byte 0.
RECURSIVE BytesLe(_)
BytesLe(n) == IF n = 0 THEN <<>> ELSE <<n % 256>> \o BytesLe(n \div 256)

to_bytes_le(n) == IF n = 0 THEN <<0>> ELSE BytesLe(n)

\* Mutant: a parse error replaced by the default field value
\* (unwrap_or_default).
decimal_to_fr_default(s) ==
    LET bu == BigUintFromStr(s)
    IN IF bu.ok
       THEN [kind |-> "value", val |-> from_le_bytes_mod_order(to_bytes_le(bu.val))]
       ELSE [kind |-> "value", val |-> 0]

\* decimal_to_fr: the parse error is a panic (unwrap_or_else(|_| panic!)); the
\* function's type is Fr, so no error value ever reaches the caller.
decimal_to_fr(s) ==
    LET bu == BigUintFromStr(s)
    IN IF bu.ok
       THEN [kind |-> "value", val |-> from_le_bytes_mod_order(to_bytes_le(bu.val))]
       ELSE [kind |-> "panic", msg |-> "invalid Fr decimal string"]

\* ------------------------------------------------------------------------
\* Additive secret sharing and randomness
\* ------------------------------------------------------------------------

\* What rng.gen() can return (the model's one random byte).
RngOutputs == {<<b>> : b \in Byte}

\* Mutant: the subtraction with its operands exchanged (x2 = x1 - x).
generate_shares_swapped(x, r_bytes) ==
    LET x1 == from_le_bytes_mod_order(r_bytes)
        x2 == FrSub(x1, x)
    IN <<x1, x2>>

\* generate_shares, given the bytes the generator returned.
generate_shares(x, r_bytes) ==
    LET x1 == from_le_bytes_mod_order(r_bytes)
        x2 == FrSub(x, x1)
    IN <<x1, x2>>

\* random_fr, given the bytes the generator returned.
random_fr(r_bytes) == from_le_bytes_mod_order(r_bytes)

\* ------------------------------------------------------------------------
\* MiMC
\* ------------------------------------------------------------------------

\* Mutant: the round without its feed-forward term (+ x).
mimc_round_no_feedforward(x, key) ==
    LET y0 == FrAdd(x, key)
    IN FrPow(y0, MimcExponent)

mimc_round(x, key) ==
    LET y0 == FrAdd(x, key)
        y == FrPow(y0, MimcExponent)
    IN FrAdd(y, x)

\* Mutant: b absorbed in the first round and the zero key in the second.
mimc2_rounds_exchanged(a, b) ==
    LET key == u64_to_fr(0)
        h1 == mimc_round(a, b)
    IN mimc_round(h1, key)

mimc2(a, b) ==
    LET key == u64_to_fr(0)
        h1 == mimc_round(a, key)
    IN mimc_round(h1, b)

\* Mutant: the third input never absorbed.
mimc3_without_third(a, b, c) ==
    LET key == u64_to_fr(0)
        h1 == mimc_round(a, key)
    IN mimc_round(h1, b)

mimc3(a, b, c) ==
    LET key == u64_to_fr(0)
        h1 == mimc_round(a, key)
        h2 == mimc_round(h1, b)
    IN mimc_round(h2, c)

compute_base_commitment(x, r) == mimc2(x, r)

compute_session_commitment(c, nonce, domain) == mimc3(c, nonce, domain)

\* ------------------------------------------------------------------------
\* Signing
\* ------------------------------------------------------------------------

RECURSIVE ConcatDecimals(_)
ConcatDecimals(c_parts) ==
    IF c_parts = <<>> THEN <<>>
    ELSE fr_to_decimal(Head(c_parts)) \o ConcatDecimals(Tail(c_parts))

\* credential_message: SHA-256 over the id bytes followed by each decimal.
credential_message(cred_id, c_parts) == Sha256(cred_id \o ConcatDecimals(c_parts))

SigningKeys == {"sk1", "sk2"}

\* generate_keypair: the verifying key belongs to the signing key.
verifying_key(sk) == [vk_of |-> sk]

\* sign_message: Ed25519 is deterministic in (sk, msg).
sign_message(sk, msg) == [signer |-> sk, signed |-> msg]

pk_to_hex(vk) == [hex |-> vk]

\* Ed25519 verification: the signature is the key owner's signature on msg.
Verify(vk, msg, sig) == \E sk \in SigningKeys : vk = verifying_key(sk) /\ sig = sign_message(sk, msg)

\* Credential identifiers (the UUID text; all of one length).
CredIds == {<<"a">>, <<"b">>}

\* ------------------------------------------------------------------------
\* File system and command state shared by both specifications
\* ------------------------------------------------------------------------

Paths == {"credential.json", "session.json"}

Absent == [kind |-> "absent"]

\* A file whose text is not a Credential (empty, truncated or other text).
Garbage == [kind |-> "garbage"]

cliVars == <<fs, last, runs, seen, issued>>

NoCommand == [cmd |-> "none"]

\* ------------------------------------------------------------------------
\* Specification SpecCrypto: the library functions called on their own.
\* `call` records the last call: its arguments and what it returned.
\* ------------------------------------------------------------------------

Strings == UNION {[1..n -> Alphabet] : n \in 0..MaxLen}

\* No call in progress.
Idle == [op |-> "none"]

InitCrypto ==
    /\ call = Idle
    /\ fs = [p \in Paths |-> Absent]
    /\ last = NoCommand
    /\ runs = 0
    /\ seen = {}
    /\ issued = {}

GenerateSharesCall ==
    /\ call = Idle
    /\ \E x \in Fr, r_bytes \in RngOutputs :
           /\ call' = [op |-> "generate_shares", x |-> x, r_bytes |-> r_bytes,
                       out |-> generate_shares(x, r_bytes)]
           /\ UNCHANGED cliVars

\* test_round_trip_decimal: encode, then decode what was encoded.
FrToDecimalCall ==
    /\ call = Idle
    /\ \E f \in Fr :
           /\ call' = [op |-> "fr_to_decimal", f |-> f, out |-> fr_to_decimal(f),
                       back |-> decimal_to_fr(fr_to_decimal(f))]
           /\ UNCHANGED cliVars

DecimalToFrCall ==
    /\ call = Idle
    /\ \E s \in Strings :
           /\ call' = [op |-> "decimal_to_fr", s |-> s, out |-> decimal_to_fr(s)]
           /\ UNCHANGED cliVars

\* test_commitment_determinism: the same call made twice.
BaseCommitmentCall ==
    /\ call = Idle
    /\ \E x \in Fr, r \in Fr :
           /\ call' = [op |-> "compute_base_commitment", x |-> x, r |-> r,
                       out |-> compute_base_commitment(x, r),
                       again |-> compute_base_commitment(x, r)]
           /\ UNCHANGED cliVars

SessionCommitmentCall ==
    /\ call = Idle
    /\ \E c \in Fr, nonce \in Fr, domain \in Fr :
           /\ call' = [op |-> "compute_session_commitment", c |-> c, nonce |-> nonce,
                       domain |-> domain,
                       out |-> compute_session_commitment(c, nonce, domain)]
           /\ UNCHANGED cliVars

\* The domain tag and session commitment as cmd_session derives them from a
\* verifier identifier.
SessionForVerifierCall ==
    /\ call = Idle
    /\ \E c \in Fr, nonce \in Fr, v \in VerifierIds :
           /\ call' = [op |-> "session_for_verifier", c |-> c, nonce |-> nonce,
                       verifier_id |-> v, domain |-> bytes_to_fr(v),
                       out |-> compute_session_commitment(c, nonce, bytes_to_fr(v))]
           /\ UNCHANGED cliVars

\* The message and signature as cmd_issue forms them over two commitments.
SignCredentialCall ==
    /\ call = Idle
    /\ \E cred_id \in CredIds, sk \in SigningKeys, c1 \in Fr, c2 \in Fr :
           /\ call' = [op |-> "sign_credential", cred_id |-> cred_id,
                       c_parts |-> <<c1, c2>>, vk |-> verifying_key(sk),
                       msg |-> credential_message(cred_id, <<c1, c2>>),
                       sig |-> sign_message(sk, credential_message(cred_id, <<c1, c2>>))]
           /\ UNCHANGED cliVars

\* The call returns; the next one starts from scratch (the functions keep no state).
Return ==
    /\ call # Idle
    /\ call' = Idle
    /\ UNCHANGED cliVars

NextCrypto ==
    \/ GenerateSharesCall
    \/ FrToDecimalCall
    \/ DecimalToFrCall
    \/ BaseCommitmentCall
    \/ SessionCommitmentCall
    \/ SessionForVerifierCall
    \/ SignCredentialCall
    \/ Return

SpecCrypto == InitCrypto /\ [][NextCrypto]_vars

\* ------------------------------------------------------------------------
\* Specification Spec: the commands `issue` and `session` run one after the
\* other on a file system.  A file holds a Credential, a Session, other
\* text, or does not exist; serde_json maps a record to its text and back.
\* ------------------------------------------------------------------------

\* How fs::write can end: the text written; the file not opened (nothing
\* changes); the file created or truncated and the text not fully written.
WriteOutcomes == {"written", "refused", "truncated"}

fs_write(files, path, content, outcome, msg) ==
    CASE outcome = "written" ->
           [status |-> "ok", reason |-> "", files |-> [files EXCEPT ![path] = content]]
      [] outcome = "refused" ->
           [status |-> "panic", reason |-> msg, files |-> files]
      [] outcome = "truncated" ->
           [status |-> "panic", reason |-> msg, files |-> [files EXCEPT ![path] = Garbage]]

\* .expect(msg) on an Err: the process aborts, nothing is written.
Panic(files, msg) == [status |-> "panic", reason |-> msg, files |-> files]

\* cmd_issue: rng holds the four draws in program order (the two shares,
\* then the two blinding factors), sk the generated key, cred_id the UUID.
cmd_issue(files, age, income, out_path, rng, sk, cred_id, outcome) ==
    LET age_fr == u64_to_fr(age)
        income_fr == u64_to_fr(income)
        age_sh == generate_shares(age_fr, rng[1])
        inc_sh == generate_shares(income_fr, rng[2])
        age_r == random_fr(rng[3])
        inc_r == random_fr(rng[4])
        age_c == compute_base_commitment(age_fr, age_r)
        inc_c == compute_base_commitment(income_fr, inc_r)
        vk == verifying_key(sk)
        msg == credential_message(cred_id, <<age_c, inc_c>>)
        sig == sign_message(sk, msg)
        pk_hex == pk_to_hex(vk)
        attributes ==
            [age |-> [x1 |-> fr_to_decimal(age_sh[1]), x2 |-> fr_to_decimal(age_sh[2]),
                      r |-> fr_to_decimal(age_r), C |-> fr_to_decimal(age_c)],
             income |-> [x1 |-> fr_to_decimal(inc_sh[1]), x2 |-> fr_to_decimal(inc_sh[2]),
                         r |-> fr_to_decimal(inc_r), C |-> fr_to_decimal(inc_c)]]
        credential ==
            [kind |-> "credential", credential_id |-> cred_id, issuer_pk |-> pk_hex,
             sig |-> sig, attributes |-> attributes]
    IN fs_write(files, out_path, credential, outcome, "failed to write credential.json")

\* Mutant: the session file written as soon as the credential is loaded,
\* with the commitments that parse, before the loop has checked them all.
cmd_session_writes_early(files, cred_path, verifier_id, min_age, min_income, out_path, r_bytes, outcome) ==
    LET raw == files[cred_path]
    IN IF raw.kind = "absent" THEN Panic(files, "cannot read credential file")
       ELSE IF raw.kind # "credential" THEN Panic(files, "invalid credential JSON")
       ELSE
         LET nonce == random_fr(r_bytes)
             domain == bytes_to_fr(verifier_id)
             attrs == raw.attributes
             good == {a \in DOMAIN attrs : decimal_to_fr(attrs[a].C).kind = "value"}
             public ==
                 [a \in good |->
                     [SC |-> fr_to_decimal(compute_session_commitment(
                                 decimal_to_fr(attrs[a].C).val, nonce, domain))]]
             session ==
                 [kind |-> "session", verifier_id |-> verifier_id,
                  nonce |-> fr_to_decimal(nonce),
                  thresholds |-> [age_min |-> min_age, income_min |-> min_income],
                  public |-> public]
             w == fs_write(files, out_path, session, outcome, "failed to write session.json")
         IN IF good # DOMAIN attrs
            THEN [status |-> "panic", reason |-> "invalid Fr decimal string", files |-> w.files]
            ELSE w

\* cmd_session: r_bytes is the draw behind the nonce.  The loop panics at the
\* first commitment that does not parse, whatever the order of iteration.
cmd_session(files, cred_path, verifier_id, min_age, min_income, out_path, r_bytes, outcome) ==
    LET raw == files[cred_path]
    IN IF raw.kind = "absent" THEN Panic(files, "cannot read credential file")
       ELSE IF raw.kind # "credential" THEN Panic(files, "invalid credential JSON")
       ELSE
         LET nonce == random_fr(r_bytes)
             domain == bytes_to_fr(verifier_id)
             attrs == raw.attributes
         IN IF \E a \in DOMAIN attrs : decimal_to_fr(attrs[a].C).kind = "panic"
            THEN Panic(files, "invalid Fr decimal string")
            ELSE
              LET public ==
                      [a \in DOMAIN attrs |->
                          [SC |-> fr_to_decimal(compute_session_commitment(
                                      decimal_to_fr(attrs[a].C).val, nonce, domain))]]
                  session ==
                      [kind |-> "session", verifier_id |-> verifier_id,
                       nonce |-> fr_to_decimal(nonce),
                       thresholds |-> [age_min |-> min_age, income_min |-> min_income],
                       public |-> public]
              IN fs_write(files, out_path, session, outcome, "failed to write session.json")

\* The inputs explored.
Ages == {22}

Incomes == {600000}

MinAges == {18}

MinIncomes == {500000}

CliVerifierIds == {"BANK_A", "BANK_B"}

CliSigningKeys == {"sk1"}

\* Draws of one issuance, in program order.
IssueRng == { << <<3>>, <<200>>, <<8>>, <<16>> >>, << <<14>>, <<5>>, <<255>>, <<0>> >> }

\* Draws behind a session nonce; 3 and 16 are the same field element.
SessionRng == { <<3>>, <<8>>, <<16>> }

\* A credential file edited by hand: the stored commitment of "age" is not
\* a decimal integer.
TamperedCredential ==
    [kind |-> "credential", credential_id |-> <<"a">>,
     issuer_pk |-> pk_to_hex(verifying_key("sk1")),
     sig |-> sign_message("sk1", credential_message(<<"a">>, <<1, 7>>)),
     attributes |->
         [age |-> [x1 |-> <<"4">>, x2 |-> <<"5">>, r |-> <<"2">>, C |-> <<"1", "x">>],
          income |-> [x1 |-> <<"1">>, x2 |-> <<"5">>, r |-> <<"3">>, C |-> <<"7">>]]]

Init ==
    /\ call = Idle
    /\ fs \in {[p \in Paths |-> IF p = "credential.json" THEN c ELSE Absent] :
                  c \in {Absent, Garbage, TamperedCredential}}
    /\ last = NoCommand
    /\ runs = 0
    /\ seen = {}
    /\ issued = {}

\* issue --age .. --income .. [--out ..]
IssueCommand ==
    /\ runs < MaxRuns
    /\ \E age \in Ages, income \in Incomes, out_path \in Paths, rng \in IssueRng,
          sk \in CliSigningKeys, cred_id \in CredIds, outcome \in WriteOutcomes :
           LET res == cmd_issue(fs, age, income, out_path, rng, sk, cred_id, outcome)
           IN /\ fs' = res.files
              /\ last' = [cmd |-> "issue", status |-> res.status, reason |-> res.reason,
                          out_path |-> out_path]
              /\ issued' = IF res.status = "ok" THEN issued \cup {out_path}
                           ELSE IF res.files[out_path] # fs[out_path]
                           THEN issued \ {out_path} ELSE issued
    /\ runs' = runs + 1
    /\ UNCHANGED <<call, seen>>

\* session --cred .. --verifier .. [--min-age ..] [--min-income ..] [--out ..]
SessionCommand ==
    /\ runs < MaxRuns
    /\ \E cred_path \in Paths, verifier_id \in CliVerifierIds, min_age \in MinAges,
          min_income \in MinIncomes, out_path \in Paths, r_bytes \in SessionRng,
          outcome \in WriteOutcomes :
           LET res == cmd_session(fs, cred_path, verifier_id, min_age, min_income,
                                  out_path, r_bytes, outcome)
           IN /\ fs' = res.files
              /\ last' = IF res.status = "ok"
                         THEN [cmd |-> "session", status |-> "ok", reason |-> "",
                               cred_path |-> cred_path, out_path |-> out_path,
                               credential |-> fs[cred_path], verifier_id |-> verifier_id,
                               nonce |-> res.files[out_path].nonce]
                         ELSE [cmd |-> "session", status |-> "panic", reason |-> res.reason,
                               cred_path |-> cred_path, out_path |-> out_path]
              /\ seen' = IF res.status = "ok"
                         THEN seen \cup {[credential |-> fs[cred_path],
                                          verifier_id |-> verifier_id,
                                          nonce |-> res.files[out_path].nonce]}
                         ELSE seen
              /\ issued' = IF res.files[out_path] # fs[out_path]
                           THEN issued \ {out_path} ELSE issued
    /\ runs' = runs + 1
    /\ UNCHANGED call

Next ==
    \/ IssueCommand
    \/ SessionCommand

Spec == Init /\ [][Next]_vars

\* ------------------------------------------------------------------------
\* Reference definitions the claims are stated with (not code).
\* ------------------------------------------------------------------------

\* The round function as the specification writes it: (x + key)^7 + x mod q.
RefR(x, key) == ((((x + key) % q) ^ 7) + x) % q

\* The integer a string of digits denotes, by positional notation.
RECURSIVE RefPositional(_, _)
RefPositional(s, i) ==
    IF i > Len(s) THEN 0
    ELSE DigitVal(s[i]) * (10 ^ (Len(s) - i)) + RefPositional(s, i + 1)

AllDigits(s) == \A i \in 1..Len(s) : s[i] \in Digits

\* s is a non-negative base-10 integer: one or more digits.
IsDecimalInteger(s) == Len(s) >= 1 /\ AllDigits(s)

\* s is the canonical base-10 string of n: digits, no leading zero, value n.
IsBase10Of(s, n) ==
    /\ IsDecimalInteger(s)
    /\ (Len(s) > 1 => s[1] # "0")
    /\ RefPositional(s, 1) = n

\* s with one leading '+' removed.
Unsigned(s) == IF Len(s) >= 1 /\ s[1] = "+" THEN Tail(s) ELSE s

IsDigitChar(c) == c \in Digits

\* The strings the parser takes for an integer: a decimal integer, possibly
\* after one '+', possibly with '_' after its first digit.
IsAcceptedSyntax(s) ==
    LET u == Unsigned(s)
    IN /\ Len(u) >= 1
       /\ u[1] \in Digits
       /\ \A i \in 1..Len(u) : u[i] \in Digits \cup {"_"}

\* ------------------------------------------------------------------------
\* C1
\* ------------------------------------------------------------------------

\* C1: generate_shares(x) returns field elements (x1, x2) with x1 + x2 = x
\* modulo q, for every x and every draw, also when x1 > x.
ShareReconstruction ==
    call.op = "generate_shares" =>
        /\ call.out[1] \in Fr
        /\ call.out[2] \in Fr
        /\ (call.out[1] + call.out[2]) % q = call.x
        /\ FrAdd(call.out[1], call.out[2]) = call.x

\* A call whose first share exceeds the secret, so that x - x1 wraps.
ShareWrapsWitness ==
    /\ call.op = "generate_shares"
    /\ call.out[1] > call.x
    /\ call.r_bytes[1] >= q

\* ------------------------------------------------------------------------
\* C5
\* ------------------------------------------------------------------------

\* C5: for every field element e, decoding the encoding gives e back, and
\* the encoding is the base-10 string of the representative in [0, q).
DecimalRoundTrip ==
    call.op = "fr_to_decimal" =>
        /\ call.back.kind = "value"
        /\ call.back.val = call.f
        /\ IsBase10Of(call.out, call.f)

\* The largest element, q - 1, has been encoded and decoded.
RoundTripWitness ==
    /\ call.op = "fr_to_decimal"
    /\ call.f = q - 1
    /\ Len(call.out) = 2
    /\ call.back.kind = "value"

\* ------------------------------------------------------------------------
\* C6
\* ------------------------------------------------------------------------

DomainSeparation ==
    /\ call.op = "compute_session_commitment" =>
           \A d2 \in Fr \ {call.domain} :
               compute_session_commitment(call.c, call.nonce, d2) # call.out
    /\ call.op = "session_for_verifier" =>
           \A v2 \in VerifierIds :
               bytes_to_fr(v2) # call.domain =>
                   compute_session_commitment(call.c, call.nonce, bytes_to_fr(v2))
                       # call.out

\* A session for BANK_A, whose tag differs from that of BANK_B.
DomainSeparationWitness ==
    /\ call.op = "session_for_verifier"
    /\ call.verifier_id = "BANK_A"
    /\ call.domain = 4
    /\ bytes_to_fr("BANK_B") = 2
    /\ compute_session_commitment(call.c, call.nonce, bytes_to_fr("BANK_B")) # call.out

\* ------------------------------------------------------------------------
\* C4
\* ------------------------------------------------------------------------

\* C4: for a fixed credential id and key, the signature over
\* credential_message(id, L) verifies, and fails verification against
\* credential_message(id, L2) for every list L2 of commitments that differs
\* from L.
SignatureBindsCommitments ==
    call.op = "sign_credential" =>
        /\ Verify(call.vk, call.msg, call.sig)
        /\ \A L2 \in Fr \X Fr :
               L2 # call.c_parts =>
                   ~Verify(call.vk, credential_message(call.cred_id, L2), call.sig)

\* ------------------------------------------------------------------------
\* C8
\* ------------------------------------------------------------------------

\* The session the last command created, as (credential, verifier, nonce).
LastSession ==
    [credential |-> last.credential, verifier_id |-> last.verifier_id,
     nonce |-> last.nonce]

\* C8: a session command never creates a session whose credential, verifier
\* identifier and nonce are those of a session created before (`seen`).
NonceFreshness ==
    [][(runs' = runs + 1 /\ last'.cmd = "session" /\ last'.status = "ok")
          => LastSession' \notin seen]_vars

\* ------------------------------------------------------------------------
\* C9
\* ------------------------------------------------------------------------

ReadOrParseFailures ==
    {"cannot read credential file", "invalid credential JSON", "invalid Fr decimal string"}

\* The session commitment of a stored commitment string, by the definition.
RefSessionCommitment(c_string, nonce, domain) ==
    LET c == RefPositional(SelectSeq(Unsigned(c_string), IsDigitChar), 1) % q
    IN RefR(RefR(RefR(c, 0), nonce), domain)

\* C9: a session command that fails to read the credential file, to parse
\* it, or to parse the stored commitment of any attribute ends in a failure
\* and leaves every file, the output path included, as it was; the output
\* path changes only when the credential was read and every attribute's
\* commitment parsed, and a session command that succeeds has written one
\* session commitment for every attribute of the credential.
NoPartialOutput ==
    [][(runs' = runs + 1 /\ last'.cmd = "session") =>
          LET cred == fs[last'.cred_path]
              out_path == last'.out_path
              unreadable == cred.kind = "absent"
              invalid == cred.kind \notin {"absent", "credential"}
              malformed ==
                  /\ cred.kind = "credential"
                  /\ \E a \in DOMAIN cred.attributes :
                         ~IsAcceptedSyntax(cred.attributes[a].C)
          IN /\ (unreadable \/ invalid \/ malformed) =>
                    /\ last'.status = "panic"
                    /\ last'.reason \in ReadOrParseFailures
                    /\ fs' = fs
             /\ (last'.status = "panic" /\ last'.reason \in ReadOrParseFailures) =>
                    fs' = fs
             /\ fs'[out_path] # fs[out_path] =>
                    ~(unreadable \/ invalid \/ malformed)
             /\ last'.status = "ok" =>
                    /\ fs'[out_path].kind = "session"
                    /\ DOMAIN fs'[out_path].public = DOMAIN cred.attributes
                    /\ \A a \in DOMAIN cred.attributes :
                           IsBase10Of(fs'[out_path].public[a].SC,
                                      RefSessionCommitment(cred.attributes[a].C,
                                          RefPositional(fs'[out_path].nonce, 1),
                                          bytes_to_fr(last'.verifier_id)))
      ]_vars

\* A session command has failed on a stored commitment that is not a decimal
\* integer, and the output path holds no file.
MalformedCommitmentWitness ==
    /\ last.cmd = "session"
    /\ last.status = "panic"
    /\ last.reason = "invalid Fr decimal string"
    /\ fs[last.cred_path] = TamperedCredential
    /\ last.out_path = "session.json"
    /\ fs["session.json"] = Absent

\* ------------------------------------------------------------------------
\* C10
\* ------------------------------------------------------------------------

\* C10: no command changes or replaces a file that holds a Credential
\* persisted by the issue command (`issued`).
CredentialImmutable ==
    [][\A p \in issued : fs'[p] = fs[p]]_vars

====
